---- MODULE Spec2Model ----
(***************************************************************************)
(* Model of the valentine backend (src/backend/src/main.rs): a Rocket      *)
(* server with two GET routes, a fixed list of quotes and a rocket_cors    *)
(* fairing attached at launch.                                             *)
(*                                                                         *)
(* The launch sequence (to_cors / expect, build, attach, mount, listen) is *)
(* modelled step by step.  Once the listener is bound, NumWorkers workers  *)
(* each take a request, dispatch it (request fairing, routing, handler,    *)
(* catcher, response fairing) and send the response; the workers           *)
(* interleave freely.                                                      *)
(***************************************************************************)
EXTENDS Integers, Sequences, FiniteSets, TLC

\* Number of workers that serve requests concurrently.
NumWorkers == 2

Workers == 1..NumWorkers

(***************************************************************************)
(* Data                                                                    *)
(***************************************************************************)

LOVE_QUOTES ==
  << "You are the reason I believe in love.",
     "Every love story is beautiful, but ours is my favorite.",
     "In all the world, there is no heart for me like yours.",
     "I love you more than yesterday, less than tomorrow.",
     "You had me at hello.",
     "To love and be loved is to feel the sun from both sides.",
     "My heart is, and always will be, yours.",
     "I wish I could turn back the clock. I'd find you sooner and love you longer.",
     "You are my today and all of my tomorrows.",
     "I fell in love the way you fall asleep: slowly, and then all at once." >>

\* The default handed to unwrap_or.
Fallback == "I love you!"

\* struct HealthResponse { status, service }
HealthResponse(status, service) == [status |-> status, service |-> service]

\* struct ValentineResponse { message, from }
ValentineResponse(message, from) == [message |-> message, from |-> from]

\* Option<&str>
None == [some |-> FALSE]
Some(x) == [some |-> TRUE, val |-> x]

\* Option::unwrap_or
unwrap_or(opt, default) == IF opt.some THEN opt.val ELSE default

\* Mutant of choose: the draw can come back empty-handed.
choose_may_fail(slice) ==
  {None} \cup {Some(slice[i]) : i \in 1..Len(slice)}

\* Mutant of choose: the index range stops one short of the last element.
choose_skips_last(slice) ==
  IF Len(slice) = 0 THEN {None} ELSE {Some(slice[i]) : i \in 1..(Len(slice) - 1)}

\* SliceRandom::choose: None on an empty slice, otherwise any element (the
\* index is drawn from the thread-local generator).
choose(slice) ==
  IF Len(slice) = 0 THEN {None} ELSE {Some(slice[i]) : i \in 1..Len(slice)}

\* Mutant of health: the service name is misspelt.
health_wrong_service == HealthResponse("ok", "valentine")

\* fn health()
health == HealthResponse("ok", "valentine-backend")

\* Mutant of valentine: the sender is misspelt.
valentine_wrong_from(pool) ==
  {ValentineResponse(unwrap_or(q, Fallback), "Valentine") : q \in choose(pool)}

\* fn valentine(), as the set of records it can return from a given pool.
valentine(pool) ==
  {ValentineResponse(unwrap_or(q, Fallback), "Your Valentine") : q \in choose(pool)}

(***************************************************************************)
(* Requests and responses                                                  *)
(***************************************************************************)

\* An absent header.
NoHeader == ""

AnOrigin == "https://app.example"

Methods == {"GET", "HEAD", "POST", "OPTIONS"}
Paths == {"/health", "/api/valentine", "/nope"}

\* The requests a client sends: method, path, the Origin header and, on a
\* preflight, the Access-Control-Request-Method header (one method the
\* policy allows and one it does not).
Requests ==
  [method : Methods, path : Paths, origin : {NoHeader, AnOrigin}, acrm : {NoHeader}]
  \cup [method : {"OPTIONS"}, path : Paths, origin : {AnOrigin}, acrm : {"GET", "TRACE"}]

\* Response bodies: Json(record), the default catcher's error page, nothing.
Json(record) == [json |-> record]
CatcherBody(status) == [catcher |-> status]
EmptyBody == [empty |-> TRUE]

Response(status, body) == [status |-> status, body |-> body, acao |-> NoHeader]

(***************************************************************************)
(* The cross-origin policy: CorsOptions { allowed_origins: all(),          *)
(* ..Default::default() }.to_cors()                                        *)
(***************************************************************************)

NoCors == [built |-> FALSE]

CorsOptions ==
  [built |-> TRUE,
   allowed_origins |-> "All",
   allowed_methods |-> {"GET", "HEAD", "POST", "OPTIONS", "PUT", "PATCH", "DELETE"},
   allowed_headers |-> "All",
   allow_credentials |-> FALSE,
   send_wildcard |-> FALSE]

\* to_cors() returns a Result; expect() unwraps Ok and panics on Err.
to_cors == {[ok |-> TRUE, cors |-> CorsOptions], [ok |-> FALSE, cors |-> NoCors]}

\* The fairing's validation of a request: "none" when the request has no
\* Origin header (not a cross-origin request), "ok" when it passes, otherwise
\* the status of the validation error.
validate(cors, req) ==
  IF req.origin = NoHeader THEN "none"
  ELSE IF req.method = "OPTIONS" /\ req.acrm # NoHeader /\ req.acrm \notin cors.allowed_methods
       THEN "403"
       ELSE "ok"

\* The request fairing: a request that fails validation is re-routed to the
\* fairing's own error route, which answers with the error's status.
on_request(fairings, req) ==
  IF fairings = <<>> THEN [req |-> req, validation |-> "none"]
  ELSE LET v == validate(fairings[1], req)
       IN  IF v \in {"none", "ok"}
           THEN [req |-> req, validation |-> v]
           ELSE [req |-> [req EXCEPT !.method = "GET", !.path = "/cors/" \o v],
                 validation |-> "failure"]

\* Mutant of on_response: the header is merged only into a routed response.
on_response_routed_only(fairings, req, validation, routed, resp) ==
  IF fairings = <<>> \/ req.origin = NoHeader \/ validation # "ok" \/ ~routed THEN resp
  ELSE [resp EXCEPT !.acao = IF fairings[1].send_wildcard THEN "*" ELSE req.origin]

\* The response fairing: nothing for a request without Origin or one that
\* failed validation; otherwise the allow-origin header is merged in, and an
\* OPTIONS request that matched no route becomes 204 with no body.
on_response(fairings, req, validation, routed, resp) ==
  IF fairings = <<>> \/ req.origin = NoHeader \/ validation # "ok" THEN resp
  ELSE LET cors == fairings[1]
           merged == [resp EXCEPT !.acao = IF cors.send_wildcard THEN "*" ELSE req.origin]
       IN  IF req.method = "OPTIONS" /\ ~routed
           THEN [merged EXCEPT !.status = 204, !.body = EmptyBody]
           ELSE merged

(***************************************************************************)
(* Routing                                                                 *)
(***************************************************************************)

Route(method, path, handler) == [method |-> method, path |-> path, handler |-> handler]

\* routes![health, valentine]
UserRoutes == {Route("GET", "/health", "health"), Route("GET", "/api/valentine", "valentine")}

\* The error route the fairing mounts for itself when the server ignites.
FairingRoutes == {Route("GET", "/cors/403", "cors_error")}

\* Mutant of route: the method is not compared.
route_any_method(routes, req) == {r \in routes : r.path = req.path}

\* The routes that match a request.
route(routes, req) == {r \in routes : r.method = req.method /\ r.path = req.path}

\* handle_error: the default catcher.
handle_error(status) == Response(status, CatcherBody(status))

\* The responses one route's handler can produce (the fairing's error route
\* fails with its status, which the catcher answers).
handle(handler, pool) ==
  CASE handler = "health" -> {Response(200, Json(health))}
    [] handler = "valentine" -> {Response(200, Json(v)) : v \in valentine(pool)}
    [] handler = "cors_error" -> {handle_error(403)}

\* route_and_process: the matching handler's outcome, a HEAD request that
\* matched nothing is tried again as GET, and anything unmatched is a 404.
route_and_process(routes, req, pool) ==
  LET direct == route(routes, req)
      asGet == route(routes, [req EXCEPT !.method = "GET"])
      matched == IF direct # {} THEN direct
                 ELSE IF req.method = "HEAD" THEN asGet ELSE {}
  IN  IF matched = {}
      THEN {[routed |-> FALSE, resp |-> handle_error(404)]}
      ELSE {[routed |-> TRUE, resp |-> x] : x \in UNION {handle(r.handler, pool) : r \in matched}}

\* strip_body, applied to the response to a HEAD request.
strip_body(resp) == [resp EXCEPT !.body = EmptyBody]

\* dispatch: request fairing, routing and handler, response fairing, and the
\* body of a HEAD response stripped.  The set of responses a request can get.
dispatch(fairings, routes, pool, req) ==
  LET pre == on_request(fairings, req)
  IN  { LET after == on_response(fairings, pre.req, pre.validation, o.routed, o.resp)
        IN  IF req.method = "HEAD" THEN strip_body(after) ELSE after
        : o \in route_and_process(routes, pre.req, pool) }

(***************************************************************************)
(* State                                                                   *)
(***************************************************************************)

VARIABLES
  phase,      \* where the launch sequence stands
  cors,       \* the policy built by to_cors()
  fairings,   \* the fairings attached to the server, in order
  routes,     \* the routes mounted on the server
  quoteBank,  \* the contents of the static LOVE_QUOTES
  conn        \* per worker: the request in flight and its response

vars == <<phase, cors, fairings, routes, quoteBank, conn>>

Idle == [pc |-> "idle"]
Received(req) == [pc |-> "received", req |-> req]
Responded(req, resp) == [pc |-> "responded", req |-> req, resp |-> resp]

Init ==
  /\ phase = "start"
  /\ cors = NoCors
  /\ fairings = <<>>
  /\ routes = {}
  /\ quoteBank = LOVE_QUOTES
  /\ conn = [w \in Workers |-> Idle]

(***************************************************************************)
(* Launch: fn rocket() and the main generated by #[launch]                 *)
(***************************************************************************)

\* Mutant of ToCors: a failed construction is ignored and the launch goes on.
ToCors_ignores_error ==
  /\ phase = "start"
  /\ \E r \in to_cors : phase' = "configured" /\ cors' = r.cors
  /\ UNCHANGED <<fairings, routes, quoteBank, conn>>

\* CorsOptions { .. }.to_cors().expect("CORS configuration failed")
ToCors ==
  /\ phase = "start"
  /\ \E r \in to_cors :
       IF r.ok
       THEN phase' = "configured" /\ cors' = r.cors
       ELSE phase' = "panicked" /\ cors' = cors
  /\ UNCHANGED <<fairings, routes, quoteBank, conn>>

\* rocket::build()
Build ==
  /\ phase = "configured"
  /\ phase' = "built"
  /\ fairings' = <<>>
  /\ routes' = {}
  /\ UNCHANGED <<cors, quoteBank, conn>>

\* .attach(cors)
Attach ==
  /\ phase = "built"
  /\ phase' = "attached"
  /\ fairings' = Append(fairings, cors)
  /\ UNCHANGED <<cors, routes, quoteBank, conn>>

\* .mount("/", routes![health, valentine])
Mount ==
  /\ phase = "attached"
  /\ phase' = "mounted"
  /\ routes' = routes \cup UserRoutes
  /\ UNCHANGED <<cors, fairings, quoteBank, conn>>

\* The generated main launches the server: the attached fairings ignite (the
\* cross-origin fairing mounts its error route) and the listener is bound.
Launch ==
  /\ phase = "mounted"
  /\ phase' = "listening"
  /\ routes' = routes \cup (IF fairings # <<>> THEN FairingRoutes ELSE {})
  /\ UNCHANGED <<cors, fairings, quoteBank, conn>>

(***************************************************************************)
(* Serving                                                                 *)
(***************************************************************************)

\* A worker takes a request off the listener.
Receive(w) ==
  /\ phase = "listening"
  /\ conn[w].pc = "idle"
  /\ \E req \in Requests : conn' = [conn EXCEPT ![w] = Received(req)]
  /\ UNCHANGED <<phase, cors, fairings, routes, quoteBank>>

\* Mutant of Dispatch: the workers share one response buffer.
Dispatch_shared_response(w) ==
  /\ phase = "listening"
  /\ conn[w].pc = "received"
  /\ \E resp \in dispatch(fairings, routes, quoteBank, conn[w].req) :
       conn' = [v \in Workers |->
                  IF v = w \/ conn[v].pc = "responded"
                  THEN Responded(conn[v].req, resp) ELSE conn[v]]
  /\ UNCHANGED <<phase, cors, fairings, routes, quoteBank>>

\* Mutant of Dispatch: a served quote is taken out of the bank.
Dispatch_consumes_quote(w) ==
  /\ phase = "listening"
  /\ conn[w].pc = "received"
  /\ \E resp \in dispatch(fairings, routes, quoteBank, conn[w].req) :
       /\ conn' = [conn EXCEPT ![w] = Responded(conn[w].req, resp)]
       /\ quoteBank' = IF "json" \in DOMAIN resp.body /\ "message" \in DOMAIN resp.body.json
                       THEN SelectSeq(quoteBank, LAMBDA q : q # resp.body.json.message)
                       ELSE quoteBank
  /\ UNCHANGED <<phase, cors, fairings, routes>>

\* The worker dispatches its request and holds the response.
Dispatch(w) ==
  /\ phase = "listening"
  /\ conn[w].pc = "received"
  /\ \E resp \in dispatch(fairings, routes, quoteBank, conn[w].req) :
       conn' = [conn EXCEPT ![w] = Responded(conn[w].req, resp)]
  /\ UNCHANGED <<phase, cors, fairings, routes, quoteBank>>

\* The response is written to the client and dropped.
Send(w) ==
  /\ phase = "listening"
  /\ conn[w].pc = "responded"
  /\ conn' = [conn EXCEPT ![w] = Idle]
  /\ UNCHANGED <<phase, cors, fairings, routes, quoteBank>>

Next ==
  \/ ToCors
  \/ Build
  \/ Attach
  \/ Mount
  \/ Launch
  \/ \E w \in Workers : Receive(w)
  \/ \E w \in Workers : Dispatch(w)
  \/ \E w \in Workers : Send(w)

Spec == Init /\ [][Next]_vars

\* The same server when clients send GET requests only (with and without an
\* Origin header).
GetRequests == {req \in Requests : req.method = "GET"}

ReceiveGet(w) ==
  /\ phase = "listening"
  /\ conn[w].pc = "idle"
  /\ \E req \in GetRequests : conn' = [conn EXCEPT ![w] = Received(req)]
  /\ UNCHANGED <<phase, cors, fairings, routes, quoteBank>>

GetNext ==
  \/ ToCors
  \/ Build
  \/ Attach
  \/ Mount
  \/ Launch
  \/ \E w \in Workers : ReceiveGet(w)
  \/ \E w \in Workers : Dispatch(w)
  \/ \E w \in Workers : Send(w)

\* Every worker that holds a request or a response gets to run.
FairSpec ==
  /\ Init
  /\ [][GetNext]_vars
  /\ \A w \in Workers : WF_vars(Dispatch(w)) /\ WF_vars(Send(w))

(***************************************************************************)
(* Properties                                                              *)
(***************************************************************************)

\* The workers that hold a response.
Done == {w \in Workers : conn[w].pc = "responded"}

IsGet(req, path) == req.method = "GET" /\ req.path = path

QuoteSet == {LOVE_QUOTES[i] : i \in 1..Len(LOVE_QUOTES)}

\* C1: every response to GET /api/valentine has status 200, a message that is
\* one of the ten LOVE_QUOTES and from "Your Valentine".
ValentineAlwaysQuotes ==
  \A w \in Done :
    IsGet(conn[w].req, "/api/valentine") =>
      /\ conn[w].resp.status = 200
      /\ DOMAIN conn[w].resp.body = {"json"}
      /\ DOMAIN conn[w].resp.body.json = {"message", "from"}
      /\ conn[w].resp.body.json.message \in QuoteSet
      /\ conn[w].resp.body.json.from = "Your Valentine"

\* C1 witness: two valentine requests answered side by side with different quotes.
ValentineServedTwice ==
  /\ \A w \in {1, 2} : w \in Done /\ IsGet(conn[w].req, "/api/valentine")
  /\ conn[1].resp.body.json.message = LOVE_QUOTES[10]
  /\ conn[2].resp.body.json.message = LOVE_QUOTES[1]

\* C2: every response to GET /health is 200 with the record
\* {status: "ok", service: "valentine-backend"}, whatever else is in flight.
HealthAlwaysOk ==
  \A w \in Done :
    IsGet(conn[w].req, "/health") =>
      /\ conn[w].resp.status = 200
      /\ conn[w].resp.body = [json |-> [status |-> "ok", service |-> "valentine-backend"]]

\* C2 witness: a health request answered while another worker holds the
\* response to an unmatched request.
HealthServedBesideOthers ==
  /\ 1 \in Done /\ IsGet(conn[1].req, "/health")
  /\ 2 \in Done /\ conn[2].req.path = "/nope"

\* C9: no response to GET /api/valentine carries the fallback message, and the
\* handler always has a result to return.
FallbackUnreachable ==
  /\ valentine(quoteBank) # {}
  /\ \A v \in valentine(quoteBank) : v.message # Fallback
  /\ \A w \in Done :
       IsGet(conn[w].req, "/api/valentine") =>
         conn[w].resp.body # [json |-> [message |-> Fallback, from |-> "Your Valentine"]]

\* C9 witness: the handler has run and returned a quote.
ValentineServedOnce ==
  \E w \in Done :
    /\ IsGet(conn[w].req, "/api/valentine")
    /\ conn[w].resp.body.json.message = LOVE_QUOTES[5]

\* C10: whenever a worker is about to serve GET /api/valentine, each of the
\* ten quotes is a possible result of that dispatch.
EveryQuotePossible ==
  /\ Cardinality(QuoteSet) = 10
  /\ \A w \in Workers :
    (conn[w].pc = "received" /\ IsGet(conn[w].req, "/api/valentine")) =>
      \A i \in 1..Len(LOVE_QUOTES) :
        ENABLED (/\ Dispatch(w)
                 /\ conn'[w].resp.status = 200
                 /\ conn'[w].resp.body =
                      [json |-> [message |-> LOVE_QUOTES[i], from |-> "Your Valentine"]])

\* C10 witness: a valentine request is about to be served just after another
\* worker answered one.
ValentinePendingAfterOne ==
  /\ conn[1].pc = "received" /\ IsGet(conn[1].req, "/api/valentine")
  /\ 2 \in Done /\ IsGet(conn[2].req, "/api/valentine")
  /\ conn[2].resp.body.json.message = LOVE_QUOTES[3]

\* The server as fn rocket() leaves it once it listens.
ServerAsLaunched ==
  /\ cors = CorsOptions
  /\ fairings = <<CorsOptions>>
  /\ routes = UserRoutes \cup FairingRoutes
  /\ quoteBank = LOVE_QUOTES

\* A request passes the policy's validation unless it is a preflight (OPTIONS
\* with Origin) asking for a method the policy does not allow.
PassesPolicy(req) ==
  ~(req.method = "OPTIONS" /\ req.acrm # NoHeader
      /\ req.acrm \notin CorsOptions.allowed_methods)

DefinedPaths == {r.path : r \in UserRoutes}

\* A request that matches no row of the route table.
Unmatched(req) == ~(req.method = "GET" /\ req.path \in DefinedPaths)

HandlerBody(body) == DOMAIN body = {"json"}

Busy == {w \in Workers : conn[w].pc # "idle"}

\* C5: after a failed to_cors() nothing is attached, mounted or served, and a
\* request is only ever in a worker's hands on a listening server whose first
\* fairing is the policy that to_cors() built.
NoServiceWithoutCors ==
  /\ phase = "panicked" =>
       ~cors.built /\ fairings = <<>> /\ routes = {} /\ Busy = {}
  /\ Busy # {} =>
       /\ phase = "listening"
       /\ cors.built
       /\ fairings = <<cors>>
  /\ ~cors.built => phase \in {"start", "panicked"}

\* C5 witness: construction of the policy failed and the process is gone.
StartupFailed == phase = "panicked" /\ ~cors.built /\ Busy = {}

\* What a worker's own request can be answered with by the server as launched.
OwnOutcomes(req) ==
  dispatch(<<CorsOptions>>, UserRoutes \cup FairingRoutes, LOVE_QUOTES, req)

WellFormed(req, resp) ==
  /\ resp.status = 200
  /\ IF req.path = "/health"
     THEN resp.body = Json(health)
     ELSE \E i \in 1..Len(LOVE_QUOTES) :
            resp.body = Json(ValentineResponse(LOVE_QUOTES[i], "Your Valentine"))

\* C6: under every interleaving, each response is one its own request alone
\* determines, a GET of a defined route is answered 200 with a well-formed
\* body, and no worker is left holding an unanswered request or an unsent
\* response: each request is eventually answered and its response sent.
ConcurrentRequestsIndependent ==
  /\ [](\A w \in Done :
          /\ conn[w].resp \in OwnOutcomes(conn[w].req)
          /\ ~Unmatched(conn[w].req) => WellFormed(conn[w].req, conn[w].resp))
  /\ [][\A w \in Workers : conn'[w] # conn[w] =>
          \A v \in Workers \ {w} : conn'[v] = conn[v]]_vars
  /\ \A w \in Workers : []<>(conn[w].pc # "received")
  /\ \A w \in Workers : []<>(conn[w].pc # "responded")

\* C6 witness: two valentine requests in flight at once, one already answered.
TwoInFlight ==
  /\ conn[1].pc = "received" /\ IsGet(conn[1].req, "/api/valentine")
  /\ 2 \in Done /\ IsGet(conn[2].req, "/api/valentine")
  /\ conn[2].resp.body.json.message = LOVE_QUOTES[7]

\* C8: the quote bank is the ten strings it started with, and serving leaves
\* the launched server (policy, fairings, routes) as it was.
QuoteBankImmutable ==
  /\ quoteBank = LOVE_QUOTES
  /\ Len(quoteBank) >= 1
  /\ Len(quoteBank) = 10
  /\ phase = "listening" => ServerAsLaunched

\* C8 witness: a valentine, a health and an unmatched request have been served.
AllKindsServed ==
  /\ 1 \in Done /\ IsGet(conn[1].req, "/api/valentine")
  /\ conn[1].resp.body.json.message = LOVE_QUOTES[2]
  /\ 2 \in Done /\ conn[2].req.path \in {"/health", "/nope"}
  /\ quoteBank = LOVE_QUOTES

====
